---------------------------- MODULE Spec2Model ----------------------------
(***************************************************************************)
(* Model of the query orchestrator of the financial agent:                 *)
(*   src/src/services/claude_ai_agent.py   ClaudeFinancialAgent            *)
(*   src/src/api/routes/ai_agent_routes.py conversation-history routes     *)
(*                                                                         *)
(* Texts are strings; characters are read with SubSeq.  Exceptions are     *)
(* values: an operation that can raise yields [exc |-> name] and the       *)
(* surrounding try/except of the source decides what becomes of it.        *)
(* Every `await` of analyze_query is a point where the event loop may run  *)
(* other handlers; the blocking generation call is not.                    *)
(***************************************************************************)
EXTENDS Integers, Sequences, FiniteSets, TLC

(***************************************************************************)
(* Text primitives (Python str).                                           *)
(***************************************************************************)
Ch(s, i) == SubSeq(s, i, i)

CharsOf(s) == { Ch(s, i) : i \in 1..Len(s) }

LowerAlpha == "abcdefghijklmnopqrstuvwxyz"

UpperAlpha == "ABCDEFGHIJKLMNOPQRSTUVWXYZ"

Digits == "0123456789"

UpperLetters == CharsOf(UpperAlpha)

\* [A-Za-z0-9_], the characters \b tells apart from the rest
WordChars == CharsOf(LowerAlpha) \cup CharsOf(UpperAlpha) \cup CharsOf(Digits) \cup {"_"}

\* \s
Whitespace == {" ", "\t", "\n", "\r"}

UpperTable == [c \in CharsOf(LowerAlpha) |->
                 Ch(UpperAlpha, CHOOSE i \in 1..Len(LowerAlpha) : Ch(LowerAlpha, i) = c)]

LowerTable == [c \in CharsOf(UpperAlpha) |->
                 Ch(LowerAlpha, CHOOSE i \in 1..Len(UpperAlpha) : Ch(UpperAlpha, i) = c)]

RECURSIVE str_upper(_)
str_upper(s) ==
    IF s = "" THEN ""
    ELSE (IF Ch(s, 1) \in DOMAIN UpperTable THEN UpperTable[Ch(s, 1)] ELSE Ch(s, 1))
         \o str_upper(SubSeq(s, 2, Len(s)))

RECURSIVE str_lower(_)
str_lower(s) ==
    IF s = "" THEN ""
    ELSE (IF Ch(s, 1) \in DOMAIN LowerTable THEN LowerTable[Ch(s, 1)] ELSE Ch(s, 1))
         \o str_lower(SubSeq(s, 2, Len(s)))

\* needle in hay
Contains(hay, needle) ==
    \E i \in 1..(Len(hay) - Len(needle) + 1) : SubSeq(hay, i, i + Len(needle) - 1) = needle

\* any(word in text for word in words)
AnyIn(words, text) == \E w \in words : Contains(text, w)

Min(a, b) == IF a < b THEN a ELSE b

(***************************************************************************)
(* Regular expressions (Python re), as far as ticker_patterns uses them.   *)
(* A pattern is a tree; Match yields every way the backtracking matcher    *)
(* can match it at a position, in the order the matcher tries them, so     *)
(* the first is the match re reports.                                      *)
(***************************************************************************)
Lit(s) == [t |-> "lit", s |-> s]

\* [cs]{lo,hi}, greedy
Rep(cs, lo, hi) == [t |-> "rep", cs |-> cs, lo |-> lo, hi |-> hi, bounded |-> TRUE]

\* [cs]{lo,}, greedy
RepMin(cs, lo) == [t |-> "rep", cs |-> cs, lo |-> lo, hi |-> lo, bounded |-> FALSE]

Cat(xs) == [t |-> "cat", xs |-> xs]

Alt(xs) == [t |-> "alt", xs |-> xs]

Star(x) == [t |-> "star", x |-> x]

Grp(i, x) == [t |-> "grp", i |-> i, x |-> x]

Bnd == [t |-> "b"]

IsWordAt(U, p) == p >= 1 /\ p <= Len(U) /\ Ch(U, p) \in WordChars

\* \b before position p
IsBoundary(U, p) == IsWordAt(U, p - 1) # IsWordAt(U, p)

RECURSIVE RunLen(_, _, _)
RunLen(U, p, cs) ==
    IF p <= Len(U) /\ Ch(U, p) \in cs THEN 1 + RunLen(U, p + 1, cs) ELSE 0

RECURSIVE Match(_, _, _, _), MatchCat(_, _, _, _, _), BindCat(_, _, _, _, _), BindStar(_, _, _, _, _), MatchAlt(_, _, _, _, _)
Match(n, U, p, caps) ==
    CASE n.t = "lit" ->
           IF SubSeq(U, p, Min(Len(U), p + Len(n.s) - 1)) = n.s
           THEN << [p |-> p + Len(n.s), caps |-> caps] >> ELSE << >>
      [] n.t = "rep" ->
           LET run == RunLen(U, p, n.cs)
               mx  == IF n.bounded THEN Min(run, n.hi) ELSE run
           IN  IF mx < n.lo THEN << >>
               ELSE [k \in 1..(mx - n.lo + 1) |-> [p |-> p + (mx - k + 1), caps |-> caps]]
      [] n.t = "b" ->
           IF IsBoundary(U, p) THEN << [p |-> p, caps |-> caps] >> ELSE << >>
      [] n.t = "grp" ->
           LET rs == Match(n.x, U, p, caps)
           IN  [k \in 1..Len(rs) |->
                  [p |-> rs[k].p, caps |-> [rs[k].caps EXCEPT ![n.i] = SubSeq(U, p, rs[k].p - 1)]]]
      [] n.t = "cat" -> MatchCat(n.xs, 1, U, p, caps)
      [] n.t = "alt" -> MatchAlt(n.xs, 1, U, p, caps)
      [] n.t = "star" ->
           BindStar(Match(n.x, U, p, caps), 1, n, U, p) \o << [p |-> p, caps |-> caps] >>

MatchCat(xs, i, U, p, caps) ==
    IF i > Len(xs) THEN << [p |-> p, caps |-> caps] >>
    ELSE BindCat(Match(xs[i], U, p, caps), 1, xs, i + 1, U)

BindCat(rs, k, xs, i, U) ==
    IF k > Len(rs) THEN << >>
    ELSE MatchCat(xs, i, U, rs[k].p, rs[k].caps) \o BindCat(rs, k + 1, xs, i, U)

BindStar(rs, k, n, U, p0) ==
    IF k > Len(rs) THEN << >>
    ELSE (IF rs[k].p > p0 THEN Match(n, U, rs[k].p, rs[k].caps) ELSE << >>)
         \o BindStar(rs, k + 1, n, U, p0)

MatchAlt(xs, i, U, p, caps) ==
    IF i > Len(xs) THEN << >>
    ELSE Match(xs[i], U, p, caps) \o MatchAlt(xs, i + 1, U, p, caps)

\* re.findall: the groups of each non-overlapping match, scanning left to
\* right; a group that took no part in the match is ''.
RECURSIVE re_findall(_, _, _)
re_findall(n, U, p) ==
    IF p > Len(U) THEN << >>
    ELSE LET rs == Match(n, U, p, << "", "" >>)
         IN  IF rs = << >> THEN re_findall(n, U, p + 1)
             ELSE << rs[1].caps >> \o re_findall(n, U, IF rs[1].p > p THEN rs[1].p ELSE p + 1)

Sym(lo, hi) == Rep(UpperLetters, lo, hi)

ticker_patterns ==
    << Cat(<< Lit("$"), Grp(1, Sym(1, 5)), Bnd >>),
       Cat(<< Bnd, Grp(1, Sym(2, 5)), RepMin(Whitespace, 1),
              Alt(<< Lit("stock"), Cat(<< Lit("share"), Rep({"s"}, 0, 1) >>),
                     Lit("ticker"), Lit("company") >>), Bnd >>),
       Cat(<< Alt(<< Lit("stock"), Lit("ticker"), Lit("symbol") >>),
              RepMin(Whitespace, 1), Grp(1, Sym(2, 5)), Bnd >>),
       Cat(<< Bnd, Grp(1, Sym(2, 5)), RepMin(Whitespace, 1),
              Alt(<< Cat(<< Lit("v"), Rep({"s"}, 0, 1), Rep({"."}, 0, 1) >>),
                     Lit("versus"), Cat(<< Lit("compare"), Rep({"d"}, 0, 1) >>) >>),
              RepMin(Whitespace, 1), Grp(2, Sym(2, 5)), Bnd >>),
       Cat(<< Bnd, Grp(1, Sym(2, 5)),
              Star(Cat(<< RepMin(Whitespace, 0), Lit(","), RepMin(Whitespace, 0),
                          Grp(2, Sym(2, 5)) >>)), Bnd >>) >>

(***************************************************************************)
(* _parse_query_for_data_needs: ticker extraction and the keyword rules.   *)
(***************************************************************************)
false_positives ==
    {"WHAT", "WHEN", "WHERE", "WHICH", "WILL", "WITH", "FROM", "THAT", "THIS", "THEY",
     "HAVE", "BEEN", "WERE", "WOULD", "COULD", "SHOULD", "ABOUT", "STOCK", "PRICE",
     "MARKET", "TRADE", "INVEST", "ANALYSIS", "COMPANY"}

\* dict, in insertion order
name_to_ticker ==
    << <<"apple", "AAPL">>, <<"microsoft", "MSFT">>, <<"google", "GOOGL">>,
       <<"tesla", "TSLA">>, <<"amazon", "AMZN">>, <<"facebook", "META">>,
       <<"nvidia", "NVDA">>, <<"netflix", "NFLX">>, <<"spotify", "SPOT">> >>

\* [m for m in match if m and len(m) >= 2]
kept_groups(match) == SelectSeq(match, LAMBDA m : m # "" /\ Len(m) >= 2)

\* for match in matches: tickers.extend / tickers.append
RECURSIVE extend_matches(_)
extend_matches(matches) ==
    IF matches = << >> THEN << >>
    ELSE kept_groups(Head(matches)) \o extend_matches(Tail(matches))

\* the list `tickers` after the loop over ticker_patterns, from pattern i on
RECURSIVE matched_tickers(_, _)
matched_tickers(U, i) ==
    IF i > Len(ticker_patterns) THEN << >>
    ELSE extend_matches(re_findall(ticker_patterns[i], U, 1)) \o matched_tickers(U, i + 1)

Range(seq) == { seq[i] : i \in DOMAIN seq }

\* list(set(S)): the members of S once each, in an order the hash of the
\* strings decides (it differs from process to process)
list_of_set(S) ==
    { f \in [1..Cardinality(S) -> S] : \A i, j \in 1..Cardinality(S) : i # j => f[i] # f[j] }

\* for name, ticker in name_to_ticker.items(): if name in query_lower
names_found(query_lower) ==
    LET hits == SelectSeq(name_to_ticker, LAMBDA e : Contains(query_lower, e[1]))
    IN  [k \in 1..Len(hits) |-> hits[k][2]]

\* a slip: the stop list is not applied
extract_tickers_unfiltered(query) ==
    LET found == Range(matched_tickers(str_upper(query), 1))
    IN  IF found # {} THEN list_of_set(found) ELSE { names_found(str_lower(query)) }

\* the values `tickers` can have at `if tickers:`
extract_tickers(query) ==
    LET found == { t \in Range(matched_tickers(str_upper(query), 1)) :
                     t \notin false_positives /\ Len(t) >= 2 }
    IN  IF found # {} THEN list_of_set(found) ELSE { names_found(str_lower(query)) }

history_period(query_lower) ==
    IF Contains(query_lower, "6 month") \/ Contains(query_lower, "6m") THEN "6mo"
    ELSE IF Contains(query_lower, "3 month") \/ Contains(query_lower, "3m") THEN "3mo"
    ELSE IF Contains(query_lower, "2 year") \/ Contains(query_lower, "2y") THEN "2y"
    ELSE "1y"

statement_kind(query_lower) ==
    IF Contains(query_lower, "balance sheet") THEN "balance_sheet"
    ELSE IF Contains(query_lower, "cash flow") THEN "cashflow"
    ELSE "income_stmt"

\* a slip: the whole ticker list goes into the comparison
compare_tickers_all(tickers) == tickers

\* tickers[:3]
compare_tickers(tickers) == SubSeq(tickers, 1, Min(3, Len(tickers)))

\* a slip: stock info is fetched only when nothing else is
stock_info_wanted_only_as_fallback(query_lower, data_requests) == Len(data_requests) = 0

\* not data_requests or any(word in query_lower for word in [...])
stock_info_wanted(query_lower, data_requests) ==
    Len(data_requests) = 0 \/ AnyIn({"analysis", "overview", "info", "about"}, query_lower)

\* the six keyword rules of lines 165-201, in the order of the source
fired_rules(query_lower, tickers, primary_ticker) ==
    LET compare ==
          IF AnyIn({"compare", "vs", "versus", "against"}, query_lower)
          THEN << [tool |-> "compare_stocks", tickers |-> compare_tickers(tickers)] >>
          ELSE << >>
        historical ==
          IF AnyIn({"historical", "price history", "chart", "performance"}, query_lower)
          THEN << [tool |-> "get_historical_prices", ticker |-> primary_ticker,
                   period |-> history_period(query_lower)] >>
          ELSE << >>
        statements ==
          IF AnyIn({"financial", "statement", "income", "balance sheet", "cash flow"}, query_lower)
          THEN << [tool |-> "get_financial_statements", ticker |-> primary_ticker,
                   statement_type |-> statement_kind(query_lower),
                   quarterly |-> AnyIn({"quarterly", "q1", "q2"}, query_lower)] >>
          ELSE << >>
        news ==
          IF AnyIn({"news", "latest", "recent", "announcement"}, query_lower)
          THEN << [tool |-> "get_news", ticker |-> primary_ticker] >> ELSE << >>
        events ==
          IF AnyIn({"upcoming", "events", "earnings", "coming", "future", "calendar", "scheduled"},
                   query_lower)
          THEN << [tool |-> "get_upcoming_events", ticker |-> primary_ticker] >> ELSE << >>
        recommendations ==
          IF AnyIn({"analyst", "recommendation", "upgrade", "downgrade", "rating"}, query_lower)
          THEN << [tool |-> "get_recommendations", ticker |-> primary_ticker] >> ELSE << >>
    IN  compare \o historical \o statements \o news \o events \o recommendations

\* a slip: the rules are an if/elif chain, the first that matches wins
keyword_rules_else_chain(query_lower, tickers, primary_ticker) ==
    LET data_requests == fired_rules(query_lower, tickers, primary_ticker)
    IN  IF data_requests # << >> THEN << data_requests[1] >>
        ELSE << [tool |-> "get_stock_info", ticker |-> primary_ticker] >>

\* a slip: the keyword rules run twice over the query
keyword_rules_run_twice(query_lower, tickers, primary_ticker) ==
    LET data_requests == fired_rules(query_lower, tickers, primary_ticker)
    IN  data_requests \o data_requests \o
        (IF stock_info_wanted(query_lower, data_requests)
         THEN << [tool |-> "get_stock_info", ticker |-> primary_ticker] >> ELSE << >>)

\* the keyword rules, in the order of the source
keyword_rules(query_lower, tickers, primary_ticker) ==
    LET data_requests == fired_rules(query_lower, tickers, primary_ticker)
    IN  data_requests \o
        (IF stock_info_wanted(query_lower, data_requests)
         THEN << [tool |-> "get_stock_info", ticker |-> primary_ticker] >> ELSE << >>)

\* a slip: the rules run with no ticker at hand
data_needs_unguarded(query_lower, tickers) ==
    keyword_rules(query_lower, tickers, IF tickers = << >> THEN "" ELSE tickers[1])

\* `if tickers:` and what it guards
data_needs(query_lower, tickers) ==
    IF tickers # << >> THEN keyword_rules(query_lower, tickers, tickers[1]) ELSE << >>

\* the lists _parse_query_for_data_needs(query) can return, each with the
\* ticker list it came from
parse_query_for_data_needs(query) ==
    { [tickers |-> ts, data_requests |-> data_needs(str_lower(query), ts)] :
        ts \in extract_tickers(query) }

(***************************************************************************)
(* Python values: dict, exceptions.                                        *)
(***************************************************************************)
EmptyDict == [k \in {} |-> k]

\* d[k] = v
Put(d, k, v) == [y \in DOMAIN d \cup {k} |-> IF y = k THEN v ELSE d[y]]

\* del d[k], for k in d
Del(d, k) == [y \in DOMAIN d \ {k} |-> d[y]]

\* d.get(k, default)
Get(d, k, default) == IF k \in DOMAIN d THEN d[k] ELSE default

KeyError(k) == [type |-> "KeyError", message |-> "'" \o k \o "'"]

AttributeError == [type |-> "AttributeError",
                   message |-> "'NoneType' object has no attribute 'messages'"]

ProviderError == [type |-> "Exception", message |-> "provider failure"]

GenerationError == [type |-> "APIError", message |-> "generation failed"]

\* str(e)
str_of(e) == e.message

IsRaised(v) == "exc" \in DOMAIN v

(***************************************************************************)
(* _fetch_financial_data and the provider (financial_mcp_service).  What   *)
(* the provider answers is the environment's choice: a document ("ok"),    *)
(* an error document ("error"), or an exception ("raise").                 *)
(***************************************************************************)
ToolNames == {"get_stock_info", "get_historical_prices", "get_financial_statements",
              "get_news", "get_upcoming_events", "get_recommendations", "compare_stocks"}

ProviderOutcomes == {"ok", "error", "raise"}

\* **request after request.pop("tool")
kwargs_of(request) == [k \in DOMAIN request \ {"tool"} |-> request[k]]

\* the provider method _fetch_financial_data calls and its arguments
provider_call(tool_name, kwargs) ==
    CASE tool_name = "get_stock_info" ->
           [method |-> "get_comprehensive_stock_info", ticker |-> Get(kwargs, "ticker", "None")]
      [] tool_name = "get_historical_prices" ->
           [method |-> "get_historical_stock_prices", ticker |-> Get(kwargs, "ticker", "None"),
            period |-> Get(kwargs, "period", "1mo"), interval |-> Get(kwargs, "interval", "1d")]
      [] tool_name = "get_financial_statements" ->
           [method |-> "get_financial_statements", ticker |-> Get(kwargs, "ticker", "None"),
            statement_type |-> Get(kwargs, "statement_type", "income_stmt"),
            quarterly |-> Get(kwargs, "quarterly", FALSE)]
      [] tool_name = "get_news" ->
           [method |-> "get_stock_news", ticker |-> Get(kwargs, "ticker", "None"), limit |-> 10]
      [] tool_name = "get_upcoming_events" ->
           [method |-> "get_upcoming_earnings_and_events", ticker |-> Get(kwargs, "ticker", "None")]
      [] tool_name = "get_recommendations" ->
           [method |-> "get_analyst_recommendations", ticker |-> Get(kwargs, "ticker", "None")]
      [] tool_name = "compare_stocks" ->
           [method |-> "compare_stocks", tickers |-> Get(kwargs, "tickers", << >>),
            metrics |-> "None"]
      [] OTHER -> [method |-> "none"]

\* the tickers a provider call names
call_tickers(call) ==
    IF "tickers" \in DOMAIN call THEN Range(call.tickers)
    ELSE IF "ticker" \in DOMAIN call THEN {call.ticker} ELSE {}

\* compare_stocks: one stock-info fetch per ticker; `info` gives the outcome
\* of each.  A ticker whose fetch answers an error document gets no entry;
\* one whose fetch raises gets {"error": str(e)}.
compare_stocks(tickers, info) ==
    [comparison |->
        [t \in { x \in Range(tickers) : info[x] # "error" } |->
            IF info[t] = "ok" THEN [metrics |-> "values"]
            ELSE [error |-> str_of(ProviderError)]],
     metrics |-> "default"]

\* what the provider method does on the call: `outcome` is what its data
\* source does, for compare_stocks on the tickers in `failed` (the others
\* are answered)
provider_result(call, outcome, failed) ==
    CASE call.method = "compare_stocks" ->
           compare_stocks(call.tickers,
                          [t \in Range(call.tickers) |-> IF t \in failed THEN outcome ELSE "ok"])
      [] outcome = "ok"    -> [document |-> call]
      [] outcome = "error" -> [error |-> "No data found"]
      [] outcome = "raise" -> [exc |-> ProviderError]

\* a slip: no try/except around the provider call
fetch_financial_data_unprotected(tool_name, kwargs, outcome, failed) ==
    IF tool_name \notin ToolNames THEN [error |-> "Unknown tool: " \o tool_name]
    ELSE provider_result(provider_call(tool_name, kwargs), outcome, failed)

\* what `await self._fetch_financial_data(tool_name, **kwargs)` yields
fetch_financial_data(tool_name, kwargs, outcome, failed) ==
    IF tool_name \notin ToolNames THEN [error |-> "Unknown tool: " \o tool_name]
    ELSE LET r == provider_result(provider_call(tool_name, kwargs), outcome, failed)
         IN  IF IsRaised(r) THEN [error |-> str_of(r.exc)] ELSE r

(***************************************************************************)
(* analyze_query, in the pieces between its suspension points.             *)
(***************************************************************************)
\* len(history) > 10
HistoryCap == 10

\* response_text[:500]
SummaryCap == 500

UnconfiguredResult ==
    [error |-> "Claude AI client not configured. Please set ANTHROPIC_API_KEY.",
     response |-> "I'm unable to provide AI analysis without proper configuration."]

\* a slip: the guard is gone
client_missing_unchecked(c) == FALSE

\* not self.client
client_missing(c) == c = "None"

\* a slip: a session is made already holding an entry
ensure_session_seeded(history, session_id) ==
    IF session_id \notin DOMAIN history
    THEN Put(history, session_id, << [timestamp |-> 0, user_query |-> "", ai_response |-> ""] >>)
    ELSE history

\* a slip: the session's list is made anew on every call
ensure_session_reset(history, session_id) == Put(history, session_id, << >>)

\* if session_id not in self.conversation_history: ... = []
ensure_session(history, session_id) ==
    IF session_id \notin DOMAIN history THEN Put(history, session_id, << >>) ELSE history

\* user_context and user_context.get("focused_ticker")
has_focus(user_context) ==
    "focused_ticker" \in DOMAIN user_context /\ user_context.focused_ticker # ""

\* a slip: only the "ticker" field is overridden
apply_focus_override_ticker_only(data_requests, user_context) ==
    IF has_focus(user_context)
    THEN [k \in DOMAIN data_requests |->
            IF "ticker" \in DOMAIN data_requests[k]
            THEN [data_requests[k] EXCEPT !.ticker = str_upper(user_context.focused_ticker)]
            ELSE data_requests[k]]
    ELSE data_requests

\* the loop that overrides the tickers of data_requests
apply_focus_override(data_requests, user_context) ==
    IF has_focus(user_context)
    THEN LET focused_ticker == str_upper(user_context.focused_ticker)
         IN  [k \in DOMAIN data_requests |->
                IF "ticker" \in DOMAIN data_requests[k]
                THEN [data_requests[k] EXCEPT !.ticker = focused_ticker]
                ELSE IF "tickers" \in DOMAIN data_requests[k]
                THEN [data_requests[k] EXCEPT !.tickers = << focused_ticker >>]
                ELSE data_requests[k]]
    ELSE data_requests

\* a slip: failures are left out of the dataset
store_fetched_skip_errors(financial_data, tool_name, data) ==
    IF "error" \in DOMAIN data THEN financial_data ELSE Put(financial_data, tool_name, data)

\* financial_data[tool_name] = data
store_fetched(financial_data, tool_name, data) == Put(financial_data, tool_name, data)

\* response_text[:500] + "..." if len(response_text) > 500 else response_text
summary_of(response_text) ==
    IF Len(response_text) > SummaryCap
    THEN SubSeq(response_text, 1, SummaryCap) \o "..." ELSE response_text

\* the entry appended to the session
new_exchange(query, response_text, now) ==
    [timestamp |-> now, user_query |-> query, ai_response |-> summary_of(response_text)]

\* a slip: the list is cut one entry late
trim_history_late(exchanges) ==
    IF Len(exchanges) > HistoryCap + 1
    THEN SubSeq(exchanges, Len(exchanges) - HistoryCap + 1, Len(exchanges)) ELSE exchanges

\* a slip: the wrong end of the list is kept
trim_history_keep_oldest(exchanges) ==
    IF Len(exchanges) > HistoryCap THEN SubSeq(exchanges, 1, HistoryCap) ELSE exchanges

\* if len(h) > 10: h = h[-10:]
trim_history(exchanges) ==
    IF Len(exchanges) > HistoryCap
    THEN SubSeq(exchanges, Len(exchanges) - HistoryCap + 1, Len(exchanges)) ELSE exchanges

\* a slip: the exception is raised again
handle_exception_reraise(e) == [raised |-> e]

\* except Exception as e: return {...}
handle_exception(e) ==
    [error |-> str_of(e),
     response |-> "I encountered an error while analyzing your query. Please try again or rephrase your question."]

\* self.client.messages.create(...): `reply` is what the generation backend
\* does with the request, a text or an exception
generate(c, reply) == IF c = "None" THEN [exc |-> AttributeError] ELSE reply

\* a slip: the whole history goes into the context
previous_conversation_all(exchanges) ==
    [exchanges |-> exchanges,
     text |-> IF exchanges # << >> THEN "" ELSE "No previous conversation"]

\* history[-3:] if history else 'No previous conversation'
previous_conversation(exchanges) ==
    [exchanges |-> SubSeq(exchanges, IF Len(exchanges) > 3 THEN Len(exchanges) - 2 ELSE 1,
                          Len(exchanges)),
     text |-> IF exchanges # << >> THEN "" ELSE "No previous conversation"]

NoContext == [query |-> "", financial_data |-> EmptyDict, user_context |-> EmptyDict,
              previous |-> previous_conversation(<< >>)]

\* the f-string of lines 250-259
assemble_context(tk, exchanges) ==
    [query |-> tk.query, financial_data |-> tk.financial_data,
     user_context |-> tk.user_context, previous |-> previous_conversation(exchanges)]

\* a slip: the session is looked up with setdefault
session_store_at_assembly_setdefault(history, session_id) ==
    IF session_id \notin DOMAIN history THEN Put(history, session_id, << >>) ELSE history

\* self.conversation_history as lines 258 and 278 find it
session_store_at_assembly(history, session_id) == history

\* a slip: the loop ends after the first fetch
next_request_leaves_loop(tk, data) == Len(tk.data_requests) + 1

\* a slip: a failed fetch is tried again
next_request_retry(tk, data) == IF "error" \in DOMAIN data THEN tk.i ELSE tk.i + 1

\* for request in data_requests: the request after the one just fetched
next_request(tk, data) == tk.i + 1

\* From the end of the fetch loop to the return: context assembly, the
\* generation call, the history update.  Nothing here suspends.  `tk` is the
\* invocation, `history` the store, `now` the clock's reading.
resolve_tail(tk, history0, c, reply, now) ==
    LET history == session_store_at_assembly(history0, tk.session_id)
    IN  IF tk.session_id \notin DOMAIN history
        THEN [task |-> [tk EXCEPT !.pc = "done",
                                   !.result = handle_exception(KeyError(tk.session_id))],
              history |-> history, wrote |-> FALSE]
        ELSE LET context == assemble_context(tk, history[tk.session_id])
                 message == generate(c, reply)
                 tk1 == [tk EXCEPT !.pc = "done", !.assembled = TRUE, !.context = context,
                                   !.log = @ \o << "assembled", "generated" >>]
             IN  IF IsRaised(message)
                 THEN [task |-> [tk1 EXCEPT !.generation = "raised",
                                            !.result = handle_exception(message.exc)],
                       history |-> history, wrote |-> FALSE]
                 ELSE LET response_text == message.text
                          exchange == new_exchange(tk.query, response_text, now)
                      IN  [task |-> [tk1 EXCEPT !.generation = "ok",
                                                !.log = @ \o << "appended" >>,
                                                !.result = [response |-> response_text,
                                                            financial_data_used |-> tk.financial_data,
                                                            session_id |-> tk.session_id,
                                                            timestamp |-> now]],
                           history |-> [history EXCEPT ![tk.session_id] =
                                          trim_history(Append(@, exchange))],
                           wrote |-> TRUE]

(***************************************************************************)
(* The conversation-history routes.                                        *)
(***************************************************************************)
\* get_conversation_history
history_response(history, session_id) ==
    LET h == Get(history, session_id, << >>)
    IN  [status |-> 200, session_id |-> session_id, history |-> h, total_exchanges |-> Len(h)]

\* a slip: the session is emptied, not removed
clear_session_keep_key(history, session_id) ==
    IF session_id \in DOMAIN history THEN [history EXCEPT ![session_id] = << >>] ELSE history

\* a slip: the whole store is emptied
clear_session_all(history, session_id) == EmptyDict

\* if session_id in conversation_history: del conversation_history[session_id]
clear_session(history, session_id) ==
    IF session_id \in DOMAIN history THEN Del(history, session_id) ELSE history

(***************************************************************************)
(* The environment, bounded.  A workload says which callers there are and  *)
(* what they send: many resolves of one query against one session, a few   *)
(* concurrent resolves over two sessions, one resolve under every outcome  *)
(* of its collaborators, or one resolve of any query.                      *)
(***************************************************************************)
MaxRetentionResolves == 12

MaxConcurrentResolves == 2

MaxSingleResolves == 1

TaskIds == {"t1", "t2"}

SessionIds == {"s1", "s2"}

Queries == {"$AAPL", "What about upcoming earnings?", "Compare AAPL vs MSFT",
            "AAPL news earnings rating", "What about Microsoft?",
            "Compare AAPL MSFT GOOGL NVDA latest", "AAPL latest overview",
            "Buy $AAPL", "What about $AAPL stock", "what about stock price", "$AAPLX",
            "What's the latest news on Tesla?"}

\* the queries resolved under every outcome of the provider and of the
\* generation call
OutcomeQueries == {"What about upcoming earnings?", "Compare AAPL vs MSFT",
                   "AAPL news earnings rating"}

\* a query on which every rule of the classifier fires
RulesQuery == "AAPL compare historical financial latest upcoming analyst overview"

NoFocus == [platform |-> "chat"]

Focus == [platform |-> "watchlist_chat", focused_ticker |-> "tsla"]

RECURSIVE repeat(_, _)
repeat(c, n) ==
    IF n = 0 THEN ""
    ELSE LET half == repeat(c, n \div 2)
         IN  half \o half \o (IF n % 2 = 1 THEN c ELSE "")

ShortReply == [text |-> "Hold."]

LongReply == [text |-> repeat("x", SummaryCap + 1)]

FailedReply == [exc |-> GenerationError]

Workloads ==
    { [name |-> "retention", tasks |-> TaskIds, sessions |-> {"s1"},
       inputs |-> {[query |-> "$AAPL", user_context |-> NoFocus]},
       provider |-> {"ok"}, generation |-> {ShortReply},
       resolves |-> MaxRetentionResolves],
      [name |-> "concurrent", tasks |-> TaskIds, sessions |-> SessionIds,
       inputs |-> {[query |-> "$AAPL", user_context |-> NoFocus]},
       provider |-> {"ok", "raise"}, generation |-> {ShortReply, FailedReply},
       resolves |-> MaxConcurrentResolves],
      [name |-> "single", tasks |-> {"t1"}, sessions |-> {"s1"},
       inputs |-> [query : OutcomeQueries, user_context : {NoFocus}],
       provider |-> ProviderOutcomes, generation |-> {ShortReply, LongReply, FailedReply},
       resolves |-> MaxSingleResolves],
      [name |-> "classify", tasks |-> {"t1"}, sessions |-> {"s1"},
       inputs |-> [query : Queries \cup {RulesQuery}, user_context : {NoFocus, Focus}],
       provider |-> {"ok"}, generation |-> {ShortReply},
       resolves |-> MaxSingleResolves] }

\* _parse_query_for_data_needs on each query of the workloads
Parsed == [q \in Queries \cup {RulesQuery} |-> parse_query_for_data_needs(q)]

(***************************************************************************)
(* State.                                                                  *)
(***************************************************************************)
VARIABLES
    client,                \* self.client: "Anthropic" or "None"
    conversation_history,  \* self.conversation_history: session id -> exchanges
    tasks,                 \* the invocations of analyze_query, one per caller
    clock,                 \* datetime.now(), counted in history updates
    reply,                 \* the response of the history route that ran last, if
                           \* no invocation has taken a step since
    workload,              \* the environment's workload
    started,               \* the calls of analyze_query so far
    appended               \* per stored session, every exchange appended to it

vars == << client, conversation_history, tasks, clock, reply, workload, started, appended >>

NoResult == EmptyDict

IdleTask ==
    [pc |-> "idle", query |-> "", session_id |-> "", user_context |-> NoFocus,
     tickers |-> << >>, data_requests |-> << >>, i |-> 0, financial_data |-> EmptyDict,
     calls |-> << >>, outcomes |-> << >>, failed |-> {}, assembled |-> FALSE,
     context |-> NoContext, log |-> << >>, generation |-> "none", result |-> NoResult]

NoReply == [op |-> "none"]

Init ==
    /\ client \in {"Anthropic", "None"}
    /\ conversation_history = EmptyDict
    /\ tasks = [t \in TaskIds |-> IdleTask]
    /\ clock = 0
    /\ reply = NoReply
    /\ workload \in Workloads
    /\ started = 0
    /\ appended = EmptyDict

\* the provider call for request k of an invocation
call_of(tk, k) == provider_call(tk.data_requests[k].tool, kwargs_of(tk.data_requests[k]))

\* `appended` after a step that leaves `history` as the store and, with
\* `wrote`, has appended `exchange` to session_id
appended_after(history, wrote, session_id, exchange) ==
    [s \in DOMAIN history |->
        Get(appended, s, << >>) \o (IF wrote /\ s = session_id THEN << exchange >> ELSE << >>)]

\* the end of analyze_query: lines 249-300 run without suspending
Finish(t, tk, history) ==
    \E g \in workload.generation :
        LET out == resolve_tail(tk, history, client, g, clock + 1)
        IN  /\ tasks' = [tasks EXCEPT ![t] = out.task]
            /\ conversation_history' = out.history
            /\ clock' = IF out.wrote THEN clock + 1 ELSE clock
            /\ appended' = appended_after(out.history, out.wrote, tk.session_id,
                               IF out.wrote
                               THEN new_exchange(tk.query, out.task.result.response, clock + 1)
                               ELSE EmptyDict)

\* analyze_query is called and runs to its first await, or to its return
StartResolve(t, input, session_id) ==
    /\ tasks[t].pc \in {"idle", "done", "cancelled"}
    /\ started < workload.resolves
    /\ started' = started + 1
    /\ reply' = NoReply
    /\ UNCHANGED << client, workload >>
    /\ IF client_missing(client)
       THEN /\ tasks' = [tasks EXCEPT ![t] =
                           [IdleTask EXCEPT !.pc = "done", !.query = input.query,
                                            !.session_id = session_id,
                                            !.user_context = input.user_context,
                                            !.result = UnconfiguredResult]]
            /\ UNCHANGED << conversation_history, clock, appended >>
       ELSE \E parsed \in Parsed[input.query] :
              LET history == ensure_session(conversation_history, session_id)
                  tk0 == [IdleTask EXCEPT !.pc = "fetch", !.query = input.query,
                                          !.session_id = session_id,
                                          !.user_context = input.user_context,
                                          !.tickers = parsed.tickers,
                                          !.data_requests =
                                              apply_focus_override(parsed.data_requests,
                                                                   input.user_context)]
              IN  IF tk0.data_requests = << >>
                  THEN Finish(t, tk0, history)
                  ELSE /\ tasks' = [tasks EXCEPT ![t] =
                                      [tk0 EXCEPT !.i = 1, !.calls = << call_of(tk0, 1) >>]]
                       /\ conversation_history' = history
                       /\ appended' = appended_after(history, FALSE, session_id, EmptyDict)
                       /\ UNCHANGED clock

\* the tickers of the awaited call whose stock-info fetch can fail with
\* `outcome`: compare_stocks fetches per ticker, the other methods once
failing_choices(tk, outcome) ==
    IF tk.pc = "fetch" /\ outcome # "ok" /\ tk.calls[tk.i].method = "compare_stocks"
    THEN SUBSET Range(tk.calls[tk.i].tickers) \ {{}}
    ELSE {{}}

\* what the loop has seen of a request: "ok", "error" or "raise" of its
\* call, "partial" for a comparison that misses some of its tickers
seen_outcome(outcome, failed) == IF failed # {} THEN "partial" ELSE outcome

\* the awaited _fetch_financial_data returns; the loop goes on to the next
\* request, or analyze_query runs to its return
FetchReturns(t, outcome, failed) ==
    /\ tasks[t].pc = "fetch"
    /\ failed \in failing_choices(tasks[t], outcome)
    /\ reply' = NoReply
    /\ UNCHANGED << client, workload, started >>
    /\ LET tk == tasks[t]
           request == tk.data_requests[tk.i]
           data == fetch_financial_data(request.tool, kwargs_of(request), outcome, failed)
       IN  IF IsRaised(data)
           THEN /\ tasks' = [tasks EXCEPT ![t] =
                               [tk EXCEPT !.pc = "done", !.result = handle_exception(data.exc)]]
                /\ UNCHANGED << conversation_history, clock, appended >>
           ELSE LET tk1 == [tk EXCEPT !.outcomes = Append(@, seen_outcome(outcome, failed)),
                                      !.failed = @ \cup failed,
                                      !.log = Append(@, "fetched"),
                                      !.financial_data = store_fetched(@, request.tool, data)]
                    j == next_request(tk, data)
                IN  IF j <= Len(tk.data_requests)
                    THEN /\ tasks' = [tasks EXCEPT ![t] =
                                        [tk1 EXCEPT !.i = j,
                                                    !.calls = Append(@, call_of(tk, j))]]
                         /\ UNCHANGED << conversation_history, clock, appended >>
                    ELSE Finish(t, tk1, conversation_history)

\* the awaited provider call never completes: analyze_query stays suspended
\* at the await of line 246, on which there is no timeout
ProviderHangs(t) ==
    /\ tasks[t].pc = "fetch"
    /\ tasks' = [tasks EXCEPT ![t] = [@ EXCEPT !.pc = "hung"]]
    /\ UNCHANGED << client, conversation_history, clock, reply, workload, started, appended >>

\* the caller gives up while analyze_query is suspended: CancelledError is
\* raised at the await and is no Exception, so it leaves analyze_query
Cancel(t) ==
    /\ tasks[t].pc \in {"fetch", "hung"}
    /\ tasks' = [tasks EXCEPT ![t] = [@ EXCEPT !.pc = "cancelled"]]
    /\ reply' = NoReply
    /\ UNCHANGED << client, conversation_history, clock, workload, started, appended >>

\* a slip: the lookup makes the session it does not find
GetHistory_creating(session_id) ==
    /\ reply' = [op |-> "history",
                 after_clear |-> (reply.op = "clear" /\ reply.session_id = session_id),
                 cleared |-> IF reply.op = "clear" /\ reply.session_id = session_id
                             THEN reply.removed ELSE 0,
                 response |-> history_response(conversation_history, session_id)]
    /\ conversation_history' = ensure_session(conversation_history, session_id)
    /\ appended' = [s \in DOMAIN conversation_history' |-> Get(appended, s, << >>)]
    /\ UNCHANGED << client, tasks, clock, workload, started >>

\* GET /ai/conversation-history/{session_id}
GetHistory(session_id) ==
    /\ reply' = [op |-> "history",
                 after_clear |-> (reply.op = "clear" /\ reply.session_id = session_id),
                 cleared |-> IF reply.op = "clear" /\ reply.session_id = session_id
                             THEN reply.removed ELSE 0,
                 response |-> history_response(conversation_history, session_id)]
    /\ UNCHANGED << client, conversation_history, tasks, clock, workload, started, appended >>

\* DELETE /ai/conversation-history/{session_id}
ClearHistory(session_id) ==
    /\ conversation_history' = clear_session(conversation_history, session_id)
    /\ appended' = [s \in DOMAIN conversation_history' |-> appended[s]]
    /\ reply' = [op |-> "clear", session_id |-> session_id,
                 existed |-> session_id \in DOMAIN conversation_history,
                 removed |-> Len(Get(conversation_history, session_id, << >>)),
                 response |-> [status |-> 200, session_id |-> session_id]]
    /\ UNCHANGED << client, tasks, clock, workload, started >>

Next ==
    \/ \E t \in workload.tasks, input \in workload.inputs, session_id \in workload.sessions :
          StartResolve(t, input, session_id)
    \/ \E t \in workload.tasks, outcome \in workload.provider :
          \E failed \in failing_choices(tasks[t], outcome) : FetchReturns(t, outcome, failed)
    \/ \E t \in workload.tasks : ProviderHangs(t)
    \/ \E t \in workload.tasks : Cancel(t)
    \/ \E session_id \in workload.sessions : GetHistory(session_id)
    \/ \E session_id \in workload.sessions : ClearHistory(session_id)

Spec == Init /\ [][Next]_vars

\* The event loop resumes a coroutine whose awaited call has completed: a
\* fetch that can return does return.  Nothing obliges a caller to cancel.
FairInit == Init /\ workload.name = "concurrent"

FairSpec ==
    /\ FairInit
    /\ [][Next]_vars
    /\ \A t \in TaskIds :
          WF_vars(\E outcome \in workload.provider :
                     \E failed \in failing_choices(tasks[t], outcome) :
                         FetchReturns(t, outcome, failed))

(***************************************************************************)
(* Properties.                                                             *)
(***************************************************************************)
IsSuccess(result) ==
    /\ DOMAIN result = {"response", "financial_data_used", "session_id", "timestamp"}
    /\ result.response # ""

IsFailure(result) ==
    /\ DOMAIN result = {"error", "response"}
    /\ result.response # ""

\* seq[-n:]
LastN(seq, n) == SubSeq(seq, IF Len(seq) > n THEN Len(seq) - n + 1 ELSE 1, Len(seq))

Tools(data_requests) == { data_requests[k].tool : k \in DOMAIN data_requests }

\* C1: every stored session holds at most 10 exchanges, in every state:
\* between operations and while an invocation is suspended in a fetch.
C1_HistoryBounded ==
    \A s \in DOMAIN conversation_history : Len(conversation_history[s]) <= HistoryCap

\* a session that has evicted an entry, seen while an invocation is suspended
C1_Witness ==
    \E s \in DOMAIN conversation_history :
        /\ Len(conversation_history[s]) = HistoryCap
        /\ Len(appended[s]) > HistoryCap
        /\ \E t \in TaskIds : tasks[t].pc = "fetch" /\ tasks[t].session_id = s

\* C2: with no clear in between, after n successful resolves a session
\* holds the exchanges of the last min(n, 10) of them, oldest first; after
\* 11 it holds 10 and the first one is gone.
C2_HistoryIsLastTen ==
    \A s \in DOMAIN conversation_history :
        /\ conversation_history[s] = LastN(appended[s], HistoryCap)
        /\ Len(conversation_history[s]) = Min(Len(appended[s]), HistoryCap)
        /\ Len(appended[s]) = HistoryCap + 1 =>
              /\ Len(conversation_history[s]) = HistoryCap
              /\ conversation_history[s][1] = appended[s][2]
              /\ \A k \in 1..HistoryCap : conversation_history[s][k] # appended[s][1]

\* the eleventh successful resolve of a session has been stored
C2_Witness ==
    \E s \in DOMAIN conversation_history :
        Len(appended[s]) = HistoryCap + 1 /\ Len(conversation_history[s]) = HistoryCap

\* C3: clear removes the session; a history request right after it answers
\* 200 with an empty list and total 0; clear of a session the store does
\* not hold answers 200 and leaves the store as it was.
C3_ClearRemovesSession ==
    /\ [](reply.op = "clear" =>
            /\ reply.response.status = 200
            /\ reply.session_id \notin DOMAIN conversation_history)
    /\ [](reply.op = "history" /\ reply.after_clear =>
            /\ reply.response.status = 200
            /\ reply.response.history = << >>
            /\ reply.response.total_exchanges = 0)
    /\ [][reply'.op = "clear" /\ ~reply'.existed =>
            conversation_history' = conversation_history]_vars

\* history was asked right after a clear that removed stored exchanges
C3_Witness ==
    reply.op = "history" /\ reply.after_clear /\ reply.cleared > 0

\* C4: with no generation client, resolve returns the failure at once: no
\* provider call, no generation call, no dataset, no session created.
C4_UnconfiguredFailsFast ==
    client = "None" =>
        /\ conversation_history = EmptyDict
        /\ \A t \in TaskIds :
              /\ tasks[t].pc \in {"idle", "done"}
              /\ tasks[t].calls = << >>
              /\ tasks[t].financial_data = EmptyDict
              /\ tasks[t].generation = "none"
              /\ tasks[t].pc = "done" =>
                    /\ IsFailure(tasks[t].result)
                    /\ tasks[t].result = UnconfiguredResult

\* an unconfigured agent has answered a resolve
C4_Witness ==
    client = "None" /\ \E t \in TaskIds : tasks[t].pc = "done" /\ tasks[t].session_id # ""

\* C5: a failing request yields a failure entry for its own tool kind and
\* nothing else: requests after it are still sent, and each gets the
\* outcome of its own call.
C5_FailureStaysLocal ==
    \A t \in TaskIds :
        LET tk == tasks[t]
        IN  /\ tk.pc = "fetch" =>
                 /\ Len(tk.calls) = tk.i
                 /\ Len(tk.outcomes) = tk.i - 1
            /\ tk.pc = "done" /\ client = "Anthropic" =>
                 /\ Len(tk.calls) = Len(tk.data_requests)
                 /\ Len(tk.outcomes) = Len(tk.data_requests)
            /\ \A k \in 1..Len(tk.outcomes) :
                 /\ tk.data_requests[k].tool \in DOMAIN tk.financial_data
                 /\ tk.outcomes[k] = "ok" =>
                       tk.financial_data[tk.data_requests[k].tool] =
                           provider_result(tk.calls[k], "ok", {})
                 /\ tk.outcomes[k] \in {"error", "raise"} =>
                       DOMAIN tk.financial_data[tk.data_requests[k].tool] = {"error"}

\* three requests, the first failed by an exception, the last answered
C5_Witness ==
    \E t \in TaskIds :
        /\ tasks[t].pc = "done"
        /\ Len(tasks[t].data_requests) = 3
        /\ tasks[t].outcomes = << "raise", "error", "ok" >>

\* C6: once the fetch loop is over, the keys of the dataset are the tool
\* kinds of the request list, one key per request.
C6_DatasetKeysAreRequests ==
    \A t \in TaskIds :
        tasks[t].assembled =>
            /\ DOMAIN tasks[t].financial_data = Tools(tasks[t].data_requests)
            /\ Cardinality(DOMAIN tasks[t].financial_data) = Len(tasks[t].data_requests)

\* a dataset of three keys, one of them a failure
C6_Witness ==
    \E t \in TaskIds :
        /\ tasks[t].assembled
        /\ Len(tasks[t].data_requests) = 3
        /\ tasks[t].outcomes = << "ok", "error", "ok" >>

\* C7: with a generation client whose call does not fail, every resolve
\* that returns, returns a success.
C7_OnlyGenerationIsFatal ==
    \A t \in TaskIds :
        (client = "Anthropic" /\ tasks[t].pc = "done" /\ tasks[t].generation # "raised")
            => IsSuccess(tasks[t].result)

\* C8: a resolve that returns, returns a success or a failure envelope with
\* `error` and a response text; no exception leaves analyze_query.
C8_FailureIsEnveloped ==
    \A t \in TaskIds :
        tasks[t].pc = "done" =>
            /\ "raised" \notin DOMAIN tasks[t].result
            /\ IsSuccess(tasks[t].result) \/ IsFailure(tasks[t].result)
            /\ (client = "None" \/ tasks[t].generation = "raised" \/ ~tasks[t].assembled)
                  => IsFailure(tasks[t].result)

\* a resolve whose generation call raised has returned
C8_Witness ==
    \E t \in TaskIds :
        /\ tasks[t].pc = "done"
        /\ tasks[t].generation = "raised"
        /\ IsFailure(tasks[t].result)

FocusedRequest(request, ticker) ==
    /\ "ticker" \in DOMAIN request => request.ticker = ticker
    /\ "tickers" \in DOMAIN request => request.tickers = << ticker >>

\* C9 as stated: the ticker fields become the focused ticker as given.
C9_FocusReplacesTickers ==
    \A t \in TaskIds :
        has_focus(tasks[t].user_context) =>
            \A k \in DOMAIN tasks[t].data_requests :
                FocusedRequest(tasks[t].data_requests[k], tasks[t].user_context.focused_ticker)

\* C9, amended: with a focused ticker, every ticker field of every request
\* is the focused ticker in upper case, and no provider call of the resolve
\* names another ticker.
C9_FocusReplacesTickersUpper ==
    \A t \in TaskIds :
        has_focus(tasks[t].user_context) =>
            LET focused == str_upper(tasks[t].user_context.focused_ticker)
            IN  /\ \A k \in DOMAIN tasks[t].data_requests :
                      FocusedRequest(tasks[t].data_requests[k], focused)
                /\ \A k \in DOMAIN tasks[t].calls :
                      call_tickers(tasks[t].calls[k]) = {focused}

\* "Compare AAPL vs MSFT" under focus: the compare call names TSLA alone
C9_Witness ==
    \E t \in TaskIds :
        /\ tasks[t].query = "Compare AAPL vs MSFT"
        /\ has_focus(tasks[t].user_context)
        /\ tasks[t].calls =
             << [method |-> "compare_stocks", tickers |-> << "TSLA" >>, metrics |-> "None"] >>

\* C10: with no ticker extracted there are no requests, whatever the
\* keywords, and the resolve goes on with an empty dataset: it fails only
\* if the generation call does.
C10_NoTickersNoRequests ==
    \A t \in TaskIds :
        (client = "Anthropic" /\ tasks[t].pc # "idle" /\ tasks[t].tickers = << >>) =>
            /\ tasks[t].data_requests = << >>
            /\ tasks[t].calls = << >>
            /\ tasks[t].financial_data = EmptyDict
            /\ tasks[t].pc = "done"
            /\ tasks[t].generation = "raised" \/ IsSuccess(tasks[t].result)
            /\ IsSuccess(tasks[t].result) => tasks[t].result.financial_data_used = EmptyDict

\* a query of keywords and no ticker has been answered
C10_Witness ==
    \E t \in TaskIds :
        /\ tasks[t].query = "What about upcoming earnings?"
        /\ tasks[t].tickers = << >>
        /\ IsSuccess(tasks[t].result)

\* C11: a query with a comparison keyword, a news keyword and tickers gets
\* a compare request for the first three tickers of the extracted list and
\* a news request for the first one; no compare request names more than
\* three tickers.
C11_CompareTakesThreeNewsTakesFirst ==
    \A t \in TaskIds :
        LET tk == tasks[t]
            query_lower == str_lower(tk.query)
        IN  /\ \A k \in DOMAIN tk.data_requests :
                  tk.data_requests[k].tool = "compare_stocks" =>
                      Len(tk.data_requests[k].tickers) <= 3
            /\ ( /\ tk.tickers # << >>
                 /\ ~has_focus(tk.user_context)
                 /\ AnyIn({"compare", "vs", "versus", "against"}, query_lower)
                 /\ AnyIn({"news", "latest", "recent", "announcement"}, query_lower) ) =>
                  /\ \E k \in DOMAIN tk.data_requests :
                        /\ tk.data_requests[k].tool = "compare_stocks"
                        /\ tk.data_requests[k].tickers =
                              SubSeq(tk.tickers, 1, Min(3, Len(tk.tickers)))
                  /\ \E k \in DOMAIN tk.data_requests :
                        /\ tk.data_requests[k].tool = "get_news"
                        /\ tk.data_requests[k].ticker = tk.tickers[1]

\* four tickers, a comparison of the first three and news of the first
C11_Witness ==
    \E t \in TaskIds :
        /\ Len(tasks[t].tickers) = 4
        /\ ~has_focus(tasks[t].user_context)
        /\ Len(tasks[t].data_requests) = 2
        /\ tasks[t].data_requests[1] =
              [tool |-> "compare_stocks", tickers |-> SubSeq(tasks[t].tickers, 1, 3)]
        /\ tasks[t].data_requests[2] = [tool |-> "get_news", ticker |-> tasks[t].tickers[1]]

C13_HungCallTimesOut ==
    \A t \in TaskIds :
        (tasks[t].pc = "hung") ~> (tasks[t].assembled \/ tasks[t].pc \in {"done", "cancelled"})

\* C14: while a resolve waits for a provider call, the provider calls of
\* all its requests have been started.
C14_RequestsStartTogether ==
    \A t \in TaskIds :
        tasks[t].pc \in {"fetch", "hung"} =>
            Len(tasks[t].calls) = Len(tasks[t].data_requests)

\* C15: every stored ai_response has at most 500 characters, and is the
\* whole response text when that has at most 500.
C15_SummaryCapped ==
    /\ \A s \in DOMAIN conversation_history :
          \A k \in DOMAIN conversation_history[s] :
              Len(conversation_history[s][k].ai_response) <= SummaryCap
    /\ \A t \in TaskIds :
          (tasks[t].pc = "done" /\ IsSuccess(tasks[t].result)
              /\ Len(tasks[t].result.response) <= SummaryCap) =>
             \A s \in DOMAIN conversation_history :
                 \A k \in DOMAIN conversation_history[s] :
                     conversation_history[s][k].timestamp = tasks[t].result.timestamp =>
                         conversation_history[s][k].ai_response = tasks[t].result.response

\* C16: in every step a stored session is left as it was, or removed by a
\* clear of that session, or extended by the exchange of a resolve that
\* returns a success in that step, at the cost of the one oldest entry at
\* most; and the exchange of every resolve that returns a success is the
\* newest entry of its session.
C16_AppendLosesOnlyOldest ==
    [][ /\ \A s \in DOMAIN conversation_history :
              \/ /\ s \notin DOMAIN conversation_history'
                 /\ reply'.op = "clear"
                 /\ reply'.session_id = s
              \/ /\ s \in DOMAIN conversation_history'
                 /\ conversation_history'[s] = conversation_history[s]
              \/ /\ s \in DOMAIN conversation_history'
                 /\ \E t \in TaskIds :
                       /\ tasks'[t] # tasks[t]
                       /\ tasks'[t].pc = "done"
                       /\ tasks'[t].session_id = s
                       /\ IsSuccess(tasks'[t].result)
                       /\ conversation_history'[s] =
                             LastN(Append(conversation_history[s],
                                          new_exchange(tasks'[t].query, tasks'[t].result.response,
                                                       tasks'[t].result.timestamp)),
                                   HistoryCap)
                 /\ Len(conversation_history'[s]) >= Len(conversation_history[s])
        /\ \A t \in TaskIds :
              (tasks'[t] # tasks[t] /\ tasks'[t].pc = "done" /\ IsSuccess(tasks'[t].result)) =>
                  /\ tasks'[t].session_id \in DOMAIN conversation_history'
                  /\ conversation_history'[tasks'[t].session_id] # << >>
                  /\ conversation_history'[tasks'[t].session_id]
                        [Len(conversation_history'[tasks'[t].session_id])].timestamp =
                     tasks'[t].result.timestamp
      ]_vars

\* a resolve has stored its exchange in a full session, evicting the oldest,
\* while another resolve of the same session is suspended in a fetch
C16_Witness ==
    \E t1, t2 \in TaskIds :
        /\ t1 # t2
        /\ tasks[t1].pc = "done"
        /\ IsSuccess(tasks[t1].result)
        /\ tasks[t2].pc = "fetch"
        /\ tasks[t2].session_id = tasks[t1].session_id
        /\ tasks[t1].session_id \in DOMAIN conversation_history
        /\ Len(appended[tasks[t1].session_id]) > HistoryCap
        /\ conversation_history[tasks[t1].session_id][HistoryCap].timestamp =
              tasks[t1].result.timestamp

\* C17: in the dataset handed to generation every failed request has an
\* error entry, and the entry of a comparison marks every ticker whose
\* stock-info fetch failed as an error.
C17_FailuresAreMarked ==
    \A t \in TaskIds :
        LET tk == tasks[t]
        IN  tk.assembled =>
              \A k \in DOMAIN tk.data_requests :
                  LET entry == tk.financial_data[tk.data_requests[k].tool]
                  IN  /\ tk.outcomes[k] \in {"error", "raise"} => "error" \in DOMAIN entry
                      /\ tk.data_requests[k].tool = "compare_stocks" =>
                            \A x \in tk.failed :
                                /\ x \in DOMAIN entry.comparison
                                /\ "error" \in DOMAIN entry.comparison[x]

\* the maximal runs of letters of U, from position p on
RECURSIVE words_of(_, _)
words_of(U, p) ==
    IF p > Len(U) THEN {}
    ELSE LET n == RunLen(U, p, UpperLetters)
         IN  IF n = 0 THEN words_of(U, p + 1)
             ELSE {SubSeq(U, p, p + n - 1)} \cup words_of(U, p + n)

\* the text is stop-list words and blanks
only_stop_words(query) ==
    LET U == str_upper(query)
    IN  /\ words_of(U, 1) # {}
        /\ words_of(U, 1) \subseteq false_positives
        /\ CharsOf(U) \subseteq UpperLetters \cup {" "}

\* "$" and the symbol, not followed by a letter, a digit or "_"
dollar_token(query, symbol) ==
    LET U == str_upper(query)
        n == Len(symbol) + 1
    IN  \E p \in 1..Len(U) :
            /\ p + n - 1 <= Len(U)
            /\ SubSeq(U, p, p + n - 1) = "$" \o symbol
            /\ ~IsWordAt(U, p + n)

C19_NameFallbackForTesla ==
    \A t \in TaskIds :
        ( /\ client = "Anthropic"
          /\ tasks[t].query = "What's the latest news on Tesla?"
          /\ ~has_focus(tasks[t].user_context) ) =>
            /\ tasks[t].tickers = << "TSLA" >>
            /\ tasks[t].data_requests = << [tool |-> "get_news", ticker |-> "TSLA"] >>
            /\ tasks[t].assembled => DOMAIN tasks[t].financial_data = {"get_news"}

\* C20: the failure returned when the generation call raises has the
\* caller's query in one of its fields.
C20_FailureEchoesQuery ==
    \A t \in TaskIds :
        (tasks[t].pc = "done" /\ tasks[t].generation = "raised") =>
            \E f \in DOMAIN tasks[t].result : Contains(tasks[t].result[f], tasks[t].query)

\* C21: in one resolve every request has been fetched before the context is
\* assembled, and the context holds the whole dataset; the generation call
\* comes right after assembly; the append comes right after a generation
\* call that succeeded, and only then.
C21_StepsInOrder ==
    \A t \in TaskIds :
        LET tk == tasks[t]
            n == Len(tk.data_requests)
            log == tk.log
        IN  /\ \A i \in DOMAIN log :
                  /\ log[i] = "assembled" =>
                        /\ i = n + 1
                        /\ \A j \in 1..n : log[j] = "fetched"
                  /\ log[i] = "generated" => (i > 1 /\ log[i - 1] = "assembled")
                  /\ log[i] = "appended" =>
                        (i > 1 /\ log[i - 1] = "generated" /\ tk.generation = "ok")
            /\ tk.assembled =>
                  /\ Len(tk.outcomes) = n
                  /\ tk.context.financial_data = tk.financial_data
                  /\ DOMAIN tk.context.financial_data = Tools(tk.data_requests)
            /\ tk.generation # "none" => tk.assembled
            /\ (tk.pc = "done" /\ IsSuccess(tk.result)) <=>
                  (log # << >> /\ log[Len(log)] = "appended")

\* three fetches, then assembly, generation and the append
C21_Witness ==
    \E t \in TaskIds :
        /\ tasks[t].pc = "done"
        /\ Len(tasks[t].data_requests) = 3
        /\ tasks[t].log = << "fetched", "fetched", "fetched", "assembled", "generated", "appended" >>

\* C22: the context a resolve assembles holds the last min(3, k) exchanges
\* of its session as stored when it is assembled, oldest first, and never
\* the exchange of that resolve.
C22_ContextHasLastThree ==
    [][ \A t \in TaskIds :
            (tasks'[t] # tasks[t] /\ tasks'[t].assembled) =>
                LET stored == Get(conversation_history, tasks'[t].session_id, << >>)
                    previous == tasks'[t].context.previous.exchanges
                IN  /\ previous = LastN(stored, 3)
                    /\ Len(previous) = Min(3, Len(stored))
                    /\ \A k \in 1..(Len(previous) - 1) :
                          previous[k].timestamp < previous[k + 1].timestamp
                    /\ IsSuccess(tasks'[t].result) =>
                          \A k \in DOMAIN previous :
                              previous[k].timestamp # tasks'[t].result.timestamp
      ]_vars

\* a context of three exchanges taken from a session that held more
C22_Witness ==
    \E t \in TaskIds :
        /\ tasks[t].assembled
        /\ Len(tasks[t].context.previous.exchanges) = 3
        /\ tasks[t].session_id \in DOMAIN appended
        /\ Len(appended[tasks[t].session_id]) >= 5

\* C23 as stated: while no resolve has completed its generation, and none
\* is in flight, the store is as it was at the start: it has no session.
C23_FailedResolveLeavesStore ==
    (clock = 0 /\ \A t \in TaskIds : tasks[t].pc \notin {"fetch", "hung"}) =>
        conversation_history = EmptyDict

\* C23, amended: the exchanges of a session change only in the step in
\* which a resolve of that session returns a success, by the append of its
\* exchange; the step in which a resolve fails or is cancelled changes no
\* session's exchanges and removes no session; what a resolve that does not
\* succeed leaves behind is at most its own session, empty, made at its
\* start.
C23_OnlySuccessAppends ==
    [][ /\ \A s \in DOMAIN conversation_history' :
              conversation_history'[s] # Get(conversation_history, s, << >>) =>
                  \E t \in TaskIds :
                      /\ tasks'[t] # tasks[t]
                      /\ tasks'[t].pc = "done"
                      /\ tasks'[t].session_id = s
                      /\ tasks'[t].generation = "ok"
                      /\ IsSuccess(tasks'[t].result)
        /\ \A t \in TaskIds :
              ( /\ tasks'[t] # tasks[t]
                /\ \/ tasks'[t].pc = "cancelled"
                   \/ tasks'[t].pc = "done" /\ IsFailure(tasks'[t].result) ) =>
                  /\ DOMAIN conversation_history \subseteq DOMAIN conversation_history'
                  /\ DOMAIN conversation_history' \subseteq
                        DOMAIN conversation_history \cup {tasks'[t].session_id}
                  /\ \A s \in DOMAIN conversation_history' :
                        conversation_history'[s] = Get(conversation_history, s, << >>)
      ]_vars

\* a resolve whose generation call failed has left its session behind, empty
C23_Witness ==
    \E t \in TaskIds :
        /\ tasks[t].pc = "done"
        /\ tasks[t].generation = "raised"
        /\ clock = 0
        /\ tasks[t].session_id \in DOMAIN conversation_history
        /\ conversation_history[tasks[t].session_id] = << >>

\* C24: the provider calls of a resolve are the calls of its requests, one
\* each and in their order, whatever the calls answer; a call is added only
\* when the one before it has returned, and none once the resolve is over.
C24_OneCallPerRequest ==
    /\ [](\A t \in TaskIds :
            LET tk == tasks[t]
            IN  /\ Len(tk.calls) <= Len(tk.data_requests)
                /\ \A k \in DOMAIN tk.calls : tk.calls[k] = call_of(tk, k)
                /\ Len(tk.outcomes) <= Len(tk.calls)
                /\ tk.assembled => Len(tk.calls) = Len(tk.data_requests))
    /\ [][ \A t \in TaskIds :
              (started' = started /\ tasks'[t].calls # tasks[t].calls) =>
                  /\ tasks[t].pc = "fetch"
                  /\ tasks'[t].pc = "fetch"
                  /\ Len(tasks'[t].calls) = Len(tasks[t].calls) + 1
                  /\ Len(tasks'[t].outcomes) = Len(tasks[t].calls)
       ]_vars

\* a resolve of three requests, one of them failed, that failed in the
\* generation call: three provider calls
C24_Witness ==
    \E t \in TaskIds :
        /\ tasks[t].pc = "done"
        /\ tasks[t].generation = "raised"
        /\ Len(tasks[t].data_requests) = 3
        /\ Len(tasks[t].calls) = 3
        /\ tasks[t].outcomes = << "ok", "raise", "ok" >>

\* the step belongs to the resolve of caller t: it changes t, or it is a call
\* of analyze_query that leaves t as its last call left it
resolve_steps(t) ==
    \/ tasks'[t] # tasks[t]
    \/ /\ tasks' = tasks
       /\ started' = started + 1
       /\ tasks[t].pc = "done"

\* C25: a history request changes nothing in the store and answers the
\* stored exchanges of the session, none for a session the store does not
\* hold; a session appears in the store only in the step that starts a
\* resolve with its id.
C25_HistoryIsReadOnly ==
    [][ /\ reply'.op = "history" =>
              /\ conversation_history' = conversation_history
              /\ reply'.response.history =
                    Get(conversation_history, reply'.response.session_id, << >>)
              /\ reply'.response.total_exchanges = Len(reply'.response.history)
              /\ reply'.response.session_id \notin DOMAIN conversation_history' =>
                    reply'.response.history = << >>
        /\ \A s \in DOMAIN conversation_history' \ DOMAIN conversation_history :
              /\ started' = started + 1
              /\ \E t \in TaskIds : resolve_steps(t) /\ tasks'[t].session_id = s
      ]_vars

\* history was asked of a session the store does not hold, next to one it holds
C25_Witness ==
    /\ reply.op = "history"
    /\ ~reply.after_clear
    /\ reply.response.session_id \notin DOMAIN conversation_history
    /\ reply.response.history = << >>
    /\ \E s \in DOMAIN conversation_history : conversation_history[s] # << >>

\* first-seen order of a list, without repeats
RECURSIVE first_seen(_, _)
first_seen(seq, seen) ==
    IF seq = << >> THEN << >>
    ELSE IF Head(seq) \in seen THEN first_seen(Tail(seq), seen)
    ELSE << Head(seq) >> \o first_seen(Tail(seq), seen \cup {Head(seq)})

\* the tickers of a query in the order the matchers find them
in_matching_order(query) ==
    LET found == first_seen(SelectSeq(matched_tickers(str_upper(query), 1),
                                      LAMBDA x : x \notin false_positives /\ Len(x) >= 2), {})
    IN  IF found # << >> THEN found ELSE names_found(str_lower(query))

\* C26: the ticker list of a query is the one list its matches give in
\* matching order, so the primary ticker is the first match.
C26_TickersInMatchingOrder ==
    \A t \in TaskIds :
        (client = "Anthropic" /\ tasks[t].pc # "idle") =>
            tasks[t].tickers = in_matching_order(tasks[t].query)

RuleOrder ==
    << "compare_stocks", "get_historical_prices", "get_financial_statements", "get_news",
       "get_upcoming_events", "get_recommendations", "get_stock_info" >>

RuleKeywords ==
    [r \in ToolNames |->
        CASE r = "compare_stocks" -> {"compare", "vs", "versus", "against"}
          [] r = "get_historical_prices" -> {"historical", "price history", "chart", "performance"}
          [] r = "get_financial_statements" ->
                {"financial", "statement", "income", "balance sheet", "cash flow"}
          [] r = "get_news" -> {"news", "latest", "recent", "announcement"}
          [] r = "get_upcoming_events" ->
                {"upcoming", "events", "earnings", "coming", "future", "calendar", "scheduled"}
          [] r = "get_recommendations" ->
                {"analyst", "recommendation", "upgrade", "downgrade", "rating"}
          [] r = "get_stock_info" -> {"analysis", "overview", "info", "about"}]

\* C27: with tickers, the tools of the request list are the rules whose
\* keywords the query has, all of them, in the order compare, historical,
\* statements, news, events, recommendations, stock info (stock info also
\* when no other rule fired).
C27_RulesFireInOrder ==
    \A t \in TaskIds :
        LET tk == tasks[t]
            query_lower == str_lower(tk.query)
            keyworded == SelectSeq(SubSeq(RuleOrder, 1, 6),
                                   LAMBDA r : AnyIn(RuleKeywords[r], query_lower))
            expected == keyworded \o
                        (IF keyworded = << >> \/ AnyIn(RuleKeywords["get_stock_info"], query_lower)
                         THEN << "get_stock_info" >> ELSE << >>)
        IN  tk.tickers # << >> =>
              /\ Len(tk.data_requests) = Len(expected)
              /\ \A k \in DOMAIN tk.data_requests : tk.data_requests[k].tool = expected[k]

\* all seven rules fired on one query
C27_Witness ==
    \E t \in TaskIds :
        /\ tasks[t].query = RulesQuery
        /\ Len(tasks[t].data_requests) = 7
        /\ \A k \in 1..7 : tasks[t].data_requests[k].tool = RuleOrder[k]

\* C28: a step changes the store only at the session of the resolve that
\* takes the step, or at the session a clear names.
C28_SessionsAreSeparate ==
    [][ \A s \in DOMAIN conversation_history \cup DOMAIN conversation_history' :
            ( \/ (s \in DOMAIN conversation_history) # (s \in DOMAIN conversation_history')
              \/ Get(conversation_history', s, << >>) # Get(conversation_history, s, << >>) ) =>
                \/ reply'.op = "clear" /\ reply'.session_id = s /\ tasks' = tasks
                \/ \E t \in TaskIds : resolve_steps(t) /\ tasks'[t].session_id = s
      ]_vars

\* a resolve of one session has stored its exchange while a resolve of the
\* other session is suspended
C28_Witness ==
    \E t1, t2 \in TaskIds :
        /\ tasks[t1].pc = "fetch"
        /\ tasks[t2].pc = "done"
        /\ IsSuccess(tasks[t2].result)
        /\ tasks[t1].session_id # tasks[t2].session_id
        /\ tasks[t1].session_id \in DOMAIN conversation_history
        /\ tasks[t2].session_id \in DOMAIN conversation_history
        /\ Len(conversation_history[tasks[t2].session_id]) = 1
        /\ conversation_history[tasks[t1].session_id] = << >>

\* C29: a resolve whose session was cleared while it was suspended, with no
\* resolve of that session started since (the session is still missing),
\* leaves the store as it is in the step it takes, returns a failure if it
\* returns, and a history request of the missing session answers nothing.
C29_ClearIsNotUndone ==
    /\ [][ \A t \in TaskIds :
              ( /\ tasks[t].pc \in {"fetch", "hung"}
                /\ tasks[t].session_id \notin DOMAIN conversation_history
                /\ tasks'[t] # tasks[t] ) =>
                  /\ conversation_history' = conversation_history
                  /\ tasks'[t].pc = "done" =>
                        /\ IsFailure(tasks'[t].result)
                        /\ \A i \in DOMAIN tasks'[t].log : tasks'[t].log[i] # "appended"
       ]_vars
    /\ [](reply.op = "history" /\ reply.response.session_id \notin DOMAIN conversation_history
             => reply.response.history = << >>)

\* the resolve has returned after the clear and history was asked: nothing
C29_Witness ==
    \E t \in TaskIds :
        /\ tasks[t].pc = "done"
        /\ Len(tasks[t].calls) >= 1
        /\ ~tasks[t].assembled
        /\ tasks[t].result = handle_exception(KeyError(tasks[t].session_id))
        /\ tasks[t].session_id \notin DOMAIN conversation_history
        /\ reply.op = "history"
        /\ reply.response.session_id = tasks[t].session_id
        /\ reply.response.history = << >>

\* C30: a request list has no two requests of one tool kind, so at most 7
\* requests, and the dataset has one key for every outcome stored.
C30_OneRequestPerToolKind ==
    \A t \in TaskIds :
        LET tk == tasks[t]
        IN  /\ \A j, k \in DOMAIN tk.data_requests :
                  j # k => tk.data_requests[j].tool # tk.data_requests[k].tool
            /\ Len(tk.data_requests) <= Cardinality(ToolNames)
            /\ Cardinality(DOMAIN tk.financial_data) = Len(tk.outcomes)

\* seven requests fetched into seven keys
C30_Witness ==
    \E t \in TaskIds :
        /\ Len(tasks[t].data_requests) = 7
        /\ Len(tasks[t].outcomes) = 7
        /\ DOMAIN tasks[t].financial_data = ToolNames

====
